---- MODULE Spec2Model ----
(***************************************************************************)
(* Model of exercises/conversions/from_str.rs: `impl FromStr for Person`.  *)
(*                                                                         *)
(* A string is a sequence of one-character strings.  Every invocation of   *)
(* Person::from_str is a small sequential process whose program counter    *)
(* walks through the statements of the function; its locals (attributes,   *)
(* age, name) are indexed by the invocation.                               *)
(***************************************************************************)
EXTENDS Integers, Sequences, FiniteSets, TLC

\* ---------------------------------------------------------------- bounds
\* longest input string explored by Spec / FairSpec
MaxLen == 5
\* longest input string explored by PairSpec (two interleaved invocations)
PairLen == 3
\* width of usize in bits, scaled down so that overflow is reachable
WordBits == 4

\* ------------------------------------------------------------ characters
Digits == {"0", "1", "2", "3", "4", "5", "6", "7", "8", "9"}

\* the characters inputs are built from: a letter, whitespace, the
\* separator, both signs and three digits
Alphabet == {"a", " ", ",", "+", "-", "0", "1", "9"}

StringsUpTo(n) == UNION {[1..k -> Alphabet] : k \in 0..n}

Inputs == StringsUpTo(MaxLen)

PairInputs == StringsUpTo(PairLen)

\* the two invocations of from_str that PairSpec interleaves; Spec runs
\* only the first
Calls == {1, 2}

\* ------------------------------------------------------------ data types
\* usize::MAX
UsizeMax == 2^WordBits - 1

\* MyError::new(msg), boxed as the Err of the result
MyErrorNew(msg) == [tag |-> "Err", details |-> msg]

\* Person { name, age } as the Ok of the result
Person(n, g) == [tag |-> "Ok", name |-> n, age |-> g]

\* no value returned yet
NoResult == [tag |-> "None"]

\* a comparison that no length satisfies
IsEmptyNever(x) == Len(x) < 0
\* x.len() == 0
IsEmpty(x) == Len(x) = 0

\* ----------------------------------------------------------- s.split(',')
\* str::split keeps empty pieces: "" gives [""], "a," gives ["a", ""]
RECURSIVE SplitFrom(_, _, _)
SplitFrom(str, i, cur) ==
  IF i > Len(str) THEN <<cur>>
  ELSE IF str[i] = "," THEN <<cur>> \o SplitFrom(str, i + 1, <<>>)
  ELSE SplitFrom(str, i + 1, Append(cur, str[i]))

Split(str) == SplitFrom(str, 1, <<>>)

\* ------------------------------------------------------ a.parse::<usize>()
\* char::to_digit(10)
ToDigit(c) ==
  CASE c = "0" -> 0 [] c = "1" -> 1 [] c = "2" -> 2 [] c = "3" -> 3
    [] c = "4" -> 4 [] c = "5" -> 5 [] c = "6" -> 6 [] c = "7" -> 7
    [] c = "8" -> 8 [] c = "9" -> 9

ParseOk(v) == [ok |-> TRUE, val |-> v]
ParseErr(k) == [ok |-> FALSE, kind |-> k]

\* wrapping arithmetic instead of checked arithmetic
RECURSIVE DigitLoopWrapping(_, _, _)
DigitLoopWrapping(ds, i, acc) ==
  IF i > Len(ds) THEN ParseOk(acc)
  ELSE IF ds[i] \notin Digits THEN ParseErr("InvalidDigit")
  ELSE DigitLoopWrapping(ds, i + 1, (acc * 10 + ToDigit(ds[i])) % (UsizeMax + 1))

\* the accumulator is not shifted by the radix
RECURSIVE DigitLoopSum(_, _, _)
DigitLoopSum(ds, i, acc) ==
  IF i > Len(ds) THEN ParseOk(acc)
  ELSE IF ds[i] \notin Digits THEN ParseErr("InvalidDigit")
  ELSE IF acc + ToDigit(ds[i]) > UsizeMax THEN ParseErr("PosOverflow")
  ELSE DigitLoopSum(ds, i + 1, acc + ToDigit(ds[i]))

\* the digit loop: checked_mul(10) then checked_add(digit)
RECURSIVE DigitLoop(_, _, _)
DigitLoop(ds, i, acc) ==
  IF i > Len(ds) THEN ParseOk(acc)
  ELSE IF ds[i] \notin Digits THEN ParseErr("InvalidDigit")
  ELSE IF acc * 10 > UsizeMax THEN ParseErr("PosOverflow")
  ELSE IF acc * 10 + ToDigit(ds[i]) > UsizeMax THEN ParseErr("PosOverflow")
  ELSE DigitLoop(ds, i + 1, acc * 10 + ToDigit(ds[i]))

\* a leading '-' is dropped as well, as for a signed type
ParseUsizeSigned(src) ==
  IF Len(src) = 0 THEN ParseErr("Empty")
  ELSE IF Len(src) = 1 /\ src[1] \in {"+", "-"} THEN ParseErr("InvalidDigit")
  ELSE IF src[1] \in {"+", "-"} THEN DigitLoop(Tail(src), 1, 0)
  ELSE DigitLoop(src, 1, 0)

\* usize::from_str: empty is an error, a lone sign is an error, one
\* leading '+' is dropped, '-' is not a sign of an unsigned type
ParseUsize(src) ==
  IF Len(src) = 0 THEN ParseErr("Empty")
  ELSE IF Len(src) = 1 /\ src[1] \in {"+", "-"} THEN ParseErr("InvalidDigit")
  ELSE IF src[1] = "+" THEN DigitLoop(Tail(src), 1, 0)
  ELSE DigitLoop(src, 1, 0)

\* the message of a ParseIntError (its Display), as `e` would print
ParseErrMessage(k) ==
  CASE k = "Empty" -> "cannot parse integer from empty string"
    [] k = "InvalidDigit" -> "invalid digit found in string"
    [] k = "PosOverflow" -> "number too large to fit in target type"

\* str::trim on the model's alphabet (whitespace is " ")
RECURSIVE TrimStart(_)
TrimStart(x) == IF Len(x) > 0 /\ Head(x) = " " THEN TrimStart(Tail(x)) ELSE x

RECURSIVE TrimEnd(_)
TrimEnd(x) ==
  IF Len(x) > 0 /\ x[Len(x)] = " " THEN TrimEnd(SubSeq(x, 1, Len(x) - 1)) ELSE x

Trim(x) == TrimEnd(TrimStart(x))

\* ----------------------------------------------------------------- state
VARIABLES
  input,       \* input[i]: the &str passed to invocation i
  pc,          \* pc[i]: the statement invocation i is at
  attributes,  \* attributes[i]: Vec<&str> of line 55
  age,         \* age[i]: <<>> while unassigned, <<x>> once assigned
  name,        \* name[i]: <<>> while unassigned, <<n>> once assigned
  result       \* result[i]: what invocation i returned

vars == <<input, pc, attributes, age, name, result>>

InitWith(s1, p2) ==
  /\ input = [i \in Calls |-> s1]
  /\ pc = [i \in Calls |-> IF i = 1 THEN "start" ELSE p2]
  /\ attributes = [i \in Calls |-> <<>>]
  /\ age = [i \in Calls |-> <<>>]
  /\ name = [i \in Calls |-> <<>>]
  /\ result = [i \in Calls |-> NoResult]

\* one invocation on any input; the second never starts
Init == \E s \in Inputs : InitWith(s, "idle")

\* two invocations on the same input, interleaved
PairInit == \E s \in PairInputs : InitWith(s, "start")

\* return Err(Box::new(MyError::new(msg)))
ReturnErr(i, msg) ==
  /\ result' = [result EXCEPT ![i] = MyErrorNew(msg)]
  /\ pc' = [pc EXCEPT ![i] = "done"]

\* an out-of-bounds index aborts the invocation
Panic(i) ==
  /\ pc' = [pc EXCEPT ![i] = "panic"]
  /\ UNCHANGED result

Goto(i, l) ==
  /\ pc' = [pc EXCEPT ![i] = l]
  /\ UNCHANGED result

\* lines 51-53
CheckInputEmpty(i) ==
  /\ pc[i] = "start"
  /\ IF IsEmpty(input[i]) THEN ReturnErr(i, "Boom") ELSE Goto(i, "split")
  /\ UNCHANGED <<input, attributes, age, name>>

\* line 55
SplitInput(i) ==
  /\ pc[i] = "split"
  /\ attributes' = [attributes EXCEPT ![i] = Split(input[i])]
  /\ Goto(i, "count")
  /\ UNCHANGED <<input, age, name>>

\* "at least two parts" instead of "exactly two"
CheckCountAtLeast(i) ==
  /\ pc[i] = "count"
  /\ IF Len(attributes[i]) < 2 THEN ReturnErr(i, "Boom") ELSE Goto(i, "first")
  /\ UNCHANGED <<input, attributes, age, name>>

\* "at most two parts" instead of "exactly two"
CheckCountAtMost(i) ==
  /\ pc[i] = "count"
  /\ IF Len(attributes[i]) > 2 THEN ReturnErr(i, "Boom") ELSE Goto(i, "first")
  /\ UNCHANGED <<input, attributes, age, name>>

\* lines 56-58
CheckCount(i) ==
  /\ pc[i] = "count"
  /\ IF Len(attributes[i]) # 2 THEN ReturnErr(i, "Boom") ELSE Goto(i, "first")
  /\ UNCHANGED <<input, attributes, age, name>>

\* lines 59-61: attributes[0]
CheckFirst(i) ==
  /\ pc[i] = "first"
  /\ IF Len(attributes[i]) < 1 THEN Panic(i)
     ELSE IF IsEmpty(attributes[i][1]) THEN ReturnErr(i, "Boom")
     ELSE Goto(i, "second")
  /\ UNCHANGED <<input, attributes, age, name>>

\* lines 62-64: attributes[1]
CheckSecond(i) ==
  /\ pc[i] = "second"
  /\ IF Len(attributes[i]) < 2 THEN Panic(i)
     ELSE IF IsEmpty(attributes[i][2]) THEN ReturnErr(i, "Boom")
     ELSE Goto(i, "popAge")
  /\ UNCHANGED <<input, attributes, age, name>>

\* the vector is one buffer shared by all invocations
PopAgeShared(i) ==
  /\ pc[i] = "popAge"
  /\ IF Len(attributes[1]) = 0
     THEN /\ ReturnErr(i, "Boom")
          /\ UNCHANGED <<attributes, age>>
     ELSE LET a == attributes[1][Len(attributes[1])]
              r == ParseUsize(a)
          IN /\ attributes' =
                  [attributes EXCEPT ![1] = SubSeq(@, 1, Len(@) - 1)]
             /\ IF r.ok
                THEN /\ age' = [age EXCEPT ![i] = <<r.val>>]
                     /\ Goto(i, "popName")
                ELSE /\ ReturnErr(i, "Boom")
                     /\ UNCHANGED age
  /\ UNCHANGED <<input, name>>

\* the parse error's own message is passed on
PopAgeForward(i) ==
  /\ pc[i] = "popAge"
  /\ IF Len(attributes[i]) = 0
     THEN /\ ReturnErr(i, "Boom")
          /\ UNCHANGED <<attributes, age>>
     ELSE LET a == attributes[i][Len(attributes[i])]
              r == ParseUsize(a)
          IN /\ attributes' =
                  [attributes EXCEPT ![i] = SubSeq(@, 1, Len(@) - 1)]
             /\ IF r.ok
                THEN /\ age' = [age EXCEPT ![i] = <<r.val>>]
                     /\ Goto(i, "popName")
                ELSE /\ ReturnErr(i, ParseErrMessage(r.kind))
                     /\ UNCHANGED age
  /\ UNCHANGED <<input, name>>

\* an unparsable age becomes the default age
PopAgeDefault(i) ==
  /\ pc[i] = "popAge"
  /\ IF Len(attributes[i]) = 0
     THEN /\ ReturnErr(i, "Boom")
          /\ UNCHANGED <<attributes, age>>
     ELSE LET a == attributes[i][Len(attributes[i])]
              r == ParseUsize(a)
          IN /\ attributes' =
                  [attributes EXCEPT ![i] = SubSeq(@, 1, Len(@) - 1)]
             /\ IF r.ok
                THEN /\ age' = [age EXCEPT ![i] = <<r.val>>]
                     /\ Goto(i, "popName")
                ELSE /\ age' = [age EXCEPT ![i] = <<0>>]
                     /\ Goto(i, "popName")
  /\ UNCHANGED <<input, name>>

\* lines 69-83: attributes.pop() and a.parse::<usize>()
PopAge(i) ==
  /\ pc[i] = "popAge"
  /\ IF Len(attributes[i]) = 0
     THEN /\ ReturnErr(i, "Boom")
          /\ UNCHANGED <<attributes, age>>
     ELSE LET a == attributes[i][Len(attributes[i])]
              r == ParseUsize(a)
          IN /\ attributes' =
                  [attributes EXCEPT ![i] = SubSeq(@, 1, Len(@) - 1)]
             /\ IF r.ok
                THEN /\ age' = [age EXCEPT ![i] = <<r.val>>]
                     /\ Goto(i, "popName")
                ELSE /\ ReturnErr(i, "Boom")
                     /\ UNCHANGED age
  /\ UNCHANGED <<input, name>>

\* the name is trimmed before it is stored
PopNameTrimmed(i) ==
  /\ pc[i] = "popName"
  /\ IF Len(attributes[i]) = 0
     THEN /\ ReturnErr(i, "Boom")
          /\ UNCHANGED <<attributes, name>>
     ELSE LET n == attributes[i][Len(attributes[i])]
          IN /\ attributes' =
                  [attributes EXCEPT ![i] = SubSeq(@, 1, Len(@) - 1)]
             /\ IF IsEmpty(n)
                THEN /\ ReturnErr(i, "Boom")
                     /\ UNCHANGED name
                ELSE /\ name' = [name EXCEPT ![i] = <<Trim(n)>>]
                     /\ Goto(i, "ok")
  /\ UNCHANGED <<input, age>>

\* lines 86-97: attributes.pop() and n.to_string()
PopName(i) ==
  /\ pc[i] = "popName"
  /\ IF Len(attributes[i]) = 0
     THEN /\ ReturnErr(i, "Boom")
          /\ UNCHANGED <<attributes, name>>
     ELSE LET n == attributes[i][Len(attributes[i])]
          IN /\ attributes' =
                  [attributes EXCEPT ![i] = SubSeq(@, 1, Len(@) - 1)]
             /\ IF IsEmpty(n)
                THEN /\ ReturnErr(i, "Boom")
                     /\ UNCHANGED name
                ELSE /\ name' = [name EXCEPT ![i] = <<n>>]
                     /\ Goto(i, "ok")
  /\ UNCHANGED <<input, age>>

\* lines 101-104
ReturnOk(i) ==
  /\ pc[i] = "ok"
  /\ result' = [result EXCEPT ![i] = Person(name[i][1], age[i][1])]
  /\ pc' = [pc EXCEPT ![i] = "done"]
  /\ UNCHANGED <<input, attributes, age, name>>

Next ==
  \/ \E i \in Calls : CheckInputEmpty(i)
  \/ \E i \in Calls : SplitInput(i)
  \/ \E i \in Calls : CheckCount(i)
  \/ \E i \in Calls : CheckFirst(i)
  \/ \E i \in Calls : CheckSecond(i)
  \/ \E i \in Calls : PopAge(i)
  \/ \E i \in Calls : PopName(i)
  \/ \E i \in Calls : ReturnOk(i)

Spec == Init /\ [][Next]_vars

\* from_str is straight-line code: a started invocation keeps running
FairSpec == Init /\ [][Next]_vars /\ WF_vars(Next)

PairSpec == PairInit /\ [][Next]_vars

\* ------------------------------------------------- vocabulary of the claims
\* These describe an input string by itself, without the parser's code.
Done(i) == pc[i] = "done"

IsOk(i) == result[i].tag = "Ok"

IsErr(i) == result[i].tag = "Err"

CommaCount(str) == Cardinality({k \in 1..Len(str) : str[k] = ","})

CommaAt(str) == CHOOSE k \in 1..Len(str) : str[k] = ","

\* the text before / after the comma of a string with exactly one comma
NameText(str) == SubSeq(str, 1, CommaAt(str) - 1)

AgeText(str) == SubSeq(str, CommaAt(str) + 1, Len(str))

AllDigits(x) == Len(x) >= 1 /\ \A k \in 1..Len(x) : x[k] \in Digits

HasNonDigit(x) == \E k \in 1..Len(x) : x[k] \notin Digits

\* the integer a digit string denotes, from its last digit backwards
RECURSIVE DecimalValue(_)
DecimalValue(x) ==
  IF Len(x) = 0 THEN 0
  ELSE ToDigit(x[Len(x)]) + 10 * DecimalValue(SubSeq(x, 1, Len(x) - 1))

\* "<name>,<digits>": one comma, a non-empty name, one or more digits
NameCommaDigits(str) ==
  /\ CommaCount(str) = 1
  /\ Len(NameText(str)) >= 1
  /\ AllDigits(AgeText(str))

\* '+' followed by one or more digits
PlusDigits(x) == Len(x) >= 2 /\ x[1] = "+" /\ AllDigits(Tail(x))

\* the integer an accepted age text denotes
AgeValue(x) == IF x[1] = "+" THEN DecimalValue(Tail(x)) ELSE DecimalValue(x)

\* -------------------------------------------------------------------- C1
\* C1 as stated: every input "<name>,<digits>" is accepted, with that name
\* and the integer value of the digits as the age.
C1_AsStated ==
  \A i \in Calls :
    (Done(i) /\ NameCommaDigits(input[i])) =>
      result[i] = Person(NameText(input[i]), DecimalValue(AgeText(input[i])))

\* C1 amended: every input "<name>,<digits>" whose digits denote a value of
\* at most usize::MAX is accepted, with that name and that value as the age.
C1_GoodInputAccepted ==
  \A i \in Calls :
    (/\ Done(i)
     /\ NameCommaDigits(input[i])
     /\ DecimalValue(AgeText(input[i])) <= UsizeMax) =>
      result[i] = Person(NameText(input[i]), DecimalValue(AgeText(input[i])))

C1_Witness ==
  /\ Done(1)
  /\ NameCommaDigits(input[1])
  /\ Len(AgeText(input[1])) >= 2
  /\ DecimalValue(AgeText(input[1])) >= 10
  /\ DecimalValue(AgeText(input[1])) <= UsizeMax
  /\ IsOk(1)

\* -------------------------------------------------------------------- C2
\* C2: an input with no comma (the empty string included) or with two or
\* more commas is rejected.
C2_WrongCommaCountRejected ==
  \A i \in Calls :
    (Done(i) /\ CommaCount(input[i]) # 1) => IsErr(i)

\* a rejected input with a trailing extra segment after a good "<name>,<digits>"
C2_Witness ==
  /\ Done(1)
  /\ CommaCount(input[1]) = 2
  /\ Len(attributes[1]) = 3
  /\ Len(attributes[1][1]) >= 1
  /\ AllDigits(attributes[1][2])
  /\ Len(attributes[1][3]) >= 1
  /\ IsErr(1)

C4_AsStated ==
  \A i \in Calls :
    (/\ Done(i)
     /\ CommaCount(input[i]) = 1
     /\ HasNonDigit(AgeText(input[i]))) =>
      IsErr(i)

\* C4 amended: an input with exactly one comma whose age text has a
\* character that is not a decimal digit is rejected, unless the age text is
\* one '+' followed by one or more digits; the age is accepted only when the
\* age text is digits with at most one leading '+'.
C4_NonDigitAgeRejected ==
  \A i \in Calls :
    /\ (/\ Done(i)
        /\ CommaCount(input[i]) = 1
        /\ HasNonDigit(AgeText(input[i]))
        /\ ~PlusDigits(AgeText(input[i]))) =>
         IsErr(i)
    /\ (Done(i) /\ CommaCount(input[i]) = 1 /\ IsOk(i)) =>
         (AllDigits(AgeText(input[i])) \/ PlusDigits(AgeText(input[i])))

\* a rejected "<name>,-<digits>"
C4_Witness ==
  /\ Done(1)
  /\ CommaCount(input[1]) = 1
  /\ Len(NameText(input[1])) >= 1
  /\ Len(AgeText(input[1])) >= 2
  /\ AgeText(input[1])[1] = "-"
  /\ AllDigits(Tail(AgeText(input[1])))
  /\ IsErr(1)

\* -------------------------------------------------------------------- C5
\* C5: from_str never panics (no index is out of bounds) and every
\* invocation returns Ok or Err.
C5_Total ==
  /\ [](\A i \in Calls : pc[i] # "panic")
  /\ [](\A i \in Calls : Done(i) => (IsOk(i) \/ IsErr(i)))
  /\ <>(\A i \in Calls : pc[i] \in {"done", "idle"})

\* a returned invocation whose split gave a single part, so that
\* attributes[1] would be out of bounds
C5_Witness ==
  /\ Done(1)
  /\ Len(input[1]) >= 1
  /\ CommaCount(input[1]) = 0
  /\ Len(attributes[1]) = 1
  /\ IsErr(1)

C7_SameError ==
  \A i \in Calls :
    (Done(i) /\ ~IsOk(i)) => result[i] = MyErrorNew("Boom")

\* an error that comes from the integer parser (an invalid digit), not
\* from a length check
C7_Witness ==
  /\ Done(1)
  /\ CommaCount(input[1]) = 1
  /\ Len(NameText(input[1])) >= 1
  /\ Len(AgeText(input[1])) >= 1
  /\ AgeText(input[1])[1] = "a"
  /\ result[1] = MyErrorNew("Boom")

\* -------------------------------------------------------------------- C8
\* C8: two invocations on the same input, however interleaved, return the
\* same outcome, and no invocation changes an input string or a local of
\* the other invocation.
C8_Deterministic ==
  /\ [](\A i, j \in Calls :
         (Done(i) /\ Done(j) /\ input[i] = input[j]) => result[i] = result[j])
  /\ [][input' = input]_vars
  /\ [][\A i \in Calls :
          pc'[i] = pc[i] =>
            /\ attributes'[i] = attributes[i]
            /\ age'[i] = age[i]
            /\ name'[i] = name[i]
            /\ result'[i] = result[i]]_vars

\* both invocations returned Ok on the same input
C8_Witness ==
  /\ Done(1) /\ Done(2)
  /\ input[1] = input[2]
  /\ IsOk(1) /\ IsOk(2)

\* -------------------------------------------------------------------- C9
\* C9: on success the name is the text before the comma, character for
\* character, and the input is the name, a comma and the age text.
C9_NameVerbatim ==
  \A i \in Calls :
    (Done(i) /\ IsOk(i)) =>
      /\ CommaCount(input[i]) = 1
      /\ result[i].name = NameText(input[i])
      /\ input[i] = result[i].name \o <<",">> \o AgeText(input[i])

\* an accepted name with leading or trailing whitespace
C9_Witness ==
  /\ Done(1)
  /\ IsOk(1)
  /\ Len(result[1].name) >= 2
  /\ result[1].name[1] = " " \/ result[1].name[Len(result[1].name)] = " "

\* ------------------------------------------------------------------- C10
\* C10: "<name>,<digits>" is rejected when the digits denote more than
\* usize::MAX, and accepted with exactly the denoted value otherwise,
\* leading zeros included.
C10_AgeBoundedByWord ==
  \A i \in Calls :
    (Done(i) /\ NameCommaDigits(input[i])) =>
      IF DecimalValue(AgeText(input[i])) > UsizeMax
      THEN IsErr(i)
      ELSE IsOk(i) /\ result[i].age = DecimalValue(AgeText(input[i]))

\* a rejected "<name>,<digits>" whose digits overflow the word
C10_Witness ==
  /\ Done(1)
  /\ NameCommaDigits(input[1])
  /\ DecimalValue(AgeText(input[1])) > UsizeMax
  /\ AgeText(input[1])[1] # "0"
  /\ IsErr(1)

====
